---- MODULE Spec2Model ----
(***************************************************************************)
(* Model of the carbon-footprint-tracker backend (backend/main.go): the    *)
(* emission calculator computeEmission with its rounding helpers, and the  *)
(* four handlers listActivities, createActivity, deleteActivity and        *)
(* summary working on the activities table.                                *)
(*                                                                         *)
(* Strings are sequences of one-character strings, so that ToLower,        *)
(* TrimSpace, time.Parse, Time.Format and strconv.Atoi are computed        *)
(* character by character.                                                 *)
(*                                                                         *)
(* A float64 is a reduced fraction n/d with a flag ex: "this value is the  *)
(* exact result".  A decimal literal such as 0.192 has no exact binary     *)
(* representation, so ex is FALSE for it and for everything computed from  *)
(* it.  The flag matters in one place only: int64(x) of an inexact x whose *)
(* ideal value is a whole number may land on either side of it.            *)
(* Quantities are bounded well inside the int64 range.                     *)
(*                                                                         *)
(* A time.Time is [y, m, d, h]: a calendar date and the hour of the day;   *)
(* the server's local zone is taken to be UTC.                             *)
(***************************************************************************)
EXTENDS Integers, Sequences, FiniteSets, TLC

VARIABLES store, nextID, now, resp, call, ret

vars == <<store, nextID, now, resp, call, ret>>

----------------------------------------------------------------------------
(* strings *)

UpperChars == <<"A","B","C","D","E","F","G","H","I","J","K","L","M",
                "N","O","P","Q","R","S","T","U","V","W","X","Y","Z">>

LowerChars == <<"a","b","c","d","e","f","g","h","i","j","k","l","m",
                "n","o","p","q","r","s","t","u","v","w","x","y","z">>

LowerChar(c) ==
    IF \E i \in 1..26 : UpperChars[i] = c
    THEN LowerChars[CHOOSE i \in 1..26 : UpperChars[i] = c]
    ELSE c

ToLowerIdentity(s) == s

\* strings.ToLower
ToLower(s) == [i \in 1..Len(s) |-> LowerChar(s[i])]

IsSpace(c) == c \in {" ", "\t", "\n", "\r"}

RECURSIVE TrimLeft(_)
TrimLeft(s) ==
    IF s # <<>> /\ IsSpace(Head(s)) THEN TrimLeft(Tail(s)) ELSE s

RECURSIVE TrimRight(_)
TrimRight(s) ==
    IF s # <<>> /\ IsSpace(s[Len(s)])
    THEN TrimRight(SubSeq(s, 1, Len(s) - 1))
    ELSE s

\* strings.TrimSpace
TrimSpace(s) == TrimRight(TrimLeft(s))

Digits == <<"0","1","2","3","4","5","6","7","8","9">>

IsDigit(c) == \E i \in 1..10 : Digits[i] = c

DigitVal(c) == (CHOOSE i \in 1..10 : Digits[i] = c) - 1

----------------------------------------------------------------------------
(* float64 *)

Abs(x) == IF x < 0 THEN -x ELSE x

RECURSIVE GCD(_, _)
GCD(a, b) == IF b = 0 THEN a ELSE GCD(b, a % b)

IsPow2(d) == \E k \in 0..30 : d = 2^k

\* the float64 nearest to the decimal n/d
Lit(n, d) ==
    LET g == GCD(Abs(n), d)
    IN  [n |-> n \div g, d |-> d \div g, ex |-> IsPow2(d \div g)]

\* float64 a * b
FMul(a, b) ==
    LET g1 == GCD(Abs(a.n), b.d)
        g2 == GCD(Abs(b.n), a.d)
    IN  [n |-> (a.n \div g1) * (b.n \div g2),
         d |-> (a.d \div g2) * (b.d \div g1),
         ex |-> a.ex /\ b.ex]

\* float64 a / b, b nonzero
FDiv(a, b) ==
    LET r == FMul([a EXCEPT !.ex = TRUE],
                  [n |-> IF b.n < 0 THEN -b.d ELSE b.d, d |-> Abs(b.n), ex |-> TRUE])
    IN  [r EXCEPT !.ex = a.ex /\ b.ex /\ IsPow2(r.d)]

\* float64 a + b
FAdd(a, b) ==
    LET n == a.n * b.d + b.n * a.d
        d == a.d * b.d
        g == GCD(Abs(n), d)
    IN  [n |-> n \div g, d |-> d \div g, ex |-> a.ex /\ b.ex /\ IsPow2(d \div g)]

FNeg(a) == [a EXCEPT !.n = -a.n]

\* a < 0 : an inexact value keeps the sign of its ideal value
FLess0(a) == a.n < 0

\* same number
FEq(a, b) == a.n = b.n /\ a.d = b.d

\* Go's int64(x): truncation toward zero.  An inexact x whose ideal value is
\* the whole number k may be a hair below or above k.
Int64Of(x) ==
    LET t == IF x.n >= 0 THEN x.n \div x.d ELSE -((-x.n) \div x.d)
    IN  IF x.ex \/ x.d # 1 \/ x.n = 0 THEN {t}
        ELSE IF x.n > 0 THEN {t - 1, t} ELSE {t, t + 1}

Half == Lit(1, 2)

Hundred == Lit(100, 1)

mathRoundHalfUp(x) == {Lit(k, 1) : k \in Int64Of(FAdd(x, Half))}

\* main.go mathRound
mathRound(x) ==
    IF FLess0(x)
    THEN {Lit(k, 1) : k \in Int64Of(FAdd(x, FNeg(Half)))}
    ELSE {Lit(k, 1) : k \in Int64Of(FAdd(x, Half))}

\* main.go round2
round2(v) == {FDiv(r, Hundred) : r \in mathRound(FMul(v, Hundred))}

----------------------------------------------------------------------------
(* Emission calculator *)

Zero == Lit(0, 1)

carPerKm == Lit(192, 1000)

busPerKm == Lit(105, 1000)

trainPerKm == Lit(41, 1000)

airPerKm == Lit(255, 1000)

kWhFactor == Lit(7, 10)

lpgKgFactor == Lit(3, 1)

meatHeavy == Lit(7, 1)

vegetarian == Lit(3, 1)

vegan == Lit(2, 1)

shoppingFactorPerThousand == Lit(15, 10)

Thousand == Lit(1000, 1)

\* the set of values the call can return (one value unless a rounding falls
\* on an inexact half); the meta argument is never read
computeEmission(category0, typ0, qty, unit0) ==
    LET category == ToLower(category0)
        typ == ToLower(typ0)
        unit == ToLower(unit0)
    IN  CASE category = <<"t","r","a","n","s","p","o","r","t">> ->
               (CASE typ = <<"c","a","r">> -> round2(FMul(qty, carPerKm))
                  [] typ = <<"b","u","s">> -> round2(FMul(qty, busPerKm))
                  [] typ = <<"t","r","a","i","n">> -> round2(FMul(qty, trainPerKm))
                  [] typ = <<"b","i","k","e">> \/ typ = <<"w","a","l","k">> -> {Zero}
                  [] typ = <<"f","l","i","g","h","t">> -> round2(FMul(qty, airPerKm))
                  [] OTHER -> {Zero})
          [] category = <<"e","n","e","r","g","y">> ->
               (CASE typ = <<"e","l","e","c","t","r","i","c","i","t","y">> ->
                         round2(FMul(qty, kWhFactor))
                  [] typ = <<"l","p","g">> -> round2(FMul(qty, lpgKgFactor))
                  [] OTHER -> {Zero})
          [] category = <<"f","o","o","d">> ->
               (CASE typ = <<"m","e","a","t","_","h","e","a","v","y","_","d","a","y">> ->
                         {meatHeavy}
                  [] typ = <<"v","e","g","e","t","a","r","i","a","n","_","d","a","y">> ->
                         {vegetarian}
                  [] typ = <<"v","e","g","a","n","_","d","a","y">> -> {vegan}
                  [] OTHER -> {Zero})
          [] category = <<"s","h","o","p","p","i","n","g">> ->
               round2(FMul(FDiv(qty, Thousand), shoppingFactorPerThousand))
          [] category = <<"o","t","h","e","r">> ->
               IF unit = <<"k","g","c","o","2","e">> \/ unit = <<"k","g">>
               THEN round2(qty)
               ELSE {Zero}
          [] OTHER -> {Zero}

----------------------------------------------------------------------------
(* time.Time *)

IsLeap(y) == y % 4 = 0 /\ (y % 100 # 0 \/ y % 400 = 0)

daysIn(m, y) ==
    IF m = 2 THEN (IF IsLeap(y) THEN 29 ELSE 28)
    ELSE IF m \in {4, 6, 9, 11} THEN 30 ELSE 31

NextDay(t) ==
    IF t.d < daysIn(t.m, t.y) THEN [t EXCEPT !.d = t.d + 1]
    ELSE IF t.m < 12 THEN [t EXCEPT !.m = t.m + 1, !.d = 1]
    ELSE [t EXCEPT !.y = t.y + 1, !.m = 1, !.d = 1]

PrevDay(t) ==
    IF t.d > 1 THEN [t EXCEPT !.d = t.d - 1]
    ELSE IF t.m > 1 THEN [t EXCEPT !.m = t.m - 1, !.d = daysIn(t.m - 1, t.y)]
    ELSE [t EXCEPT !.y = t.y - 1, !.m = 12, !.d = 31]

\* t.AddDate(0, 0, days): the date moves, the time of day stays
RECURSIVE AddDate(_, _)
AddDate(t, days) ==
    IF days = 0 THEN t
    ELSE IF days > 0 THEN AddDate(NextDay(t), days - 1)
    ELSE AddDate(PrevDay(t), days + 1)

\* a.Before(b)
Before(a, b) ==
    \/ a.y < b.y
    \/ a.y = b.y /\ a.m < b.m
    \/ a.y = b.y /\ a.m = b.m /\ a.d < b.d
    \/ a.y = b.y /\ a.m = b.m /\ a.d = b.d /\ a.h < b.h

\* a.After(b)
After(a, b) == Before(b, a)

TwoDigits(k) == <<Digits[(k \div 10) + 1], Digits[(k % 10) + 1]>>

\* t.Format("2006-01-02")
Format(t) ==
    TwoDigits(t.y \div 100) \o TwoDigits(t.y % 100) \o <<"-">>
        \o TwoDigits(t.m) \o <<"-">> \o TwoDigits(t.d)

Num2(s, i) == 10 * DigitVal(s[i]) + DigitVal(s[i + 1])

\* the layout "2006-01-02" fits s: four digits, "-", two digits, "-", two digits
LayoutFits(s) ==
    /\ Len(s) = 10
    /\ \A i \in {1, 2, 3, 4, 6, 7, 9, 10} : IsDigit(s[i])
    /\ s[5] = "-" /\ s[8] = "-"

\* time.Parse("2006-01-02", s): [ok, t], t at midnight UTC
ParseDate(s) ==
    IF ~LayoutFits(s) THEN [ok |-> FALSE]
    ELSE LET y == 100 * Num2(s, 1) + Num2(s, 3)
             m == Num2(s, 6)
             d == Num2(s, 9)
         IN  IF m < 1 \/ m > 12 \/ d < 1 \/ d > daysIn(m, y)
             THEN [ok |-> FALSE]
             ELSE [ok |-> TRUE, t |-> [y |-> y, m |-> m, d |-> d, h |-> 0]]

IsBlankNoTrim(s) == s = <<>>

\* strings.TrimSpace(s) == ""
IsBlank(s) == TrimSpace(s) = <<>>

\* strconv.Atoi(s): [ok, v]; an optional sign, then one or more digits
Atoi(s) ==
    LET signed == s # <<>> /\ s[1] \in {"+", "-"}
        ds == IF signed THEN Tail(s) ELSE s
        val[i \in 0..Len(ds)] == IF i = 0 THEN 0 ELSE 10 * val[i - 1] + DigitVal(ds[i])
    IN  IF ds = <<>> \/ \E i \in 1..Len(ds) : ~IsDigit(ds[i])
        THEN [ok |-> FALSE]
        ELSE [ok |-> TRUE,
              v |-> IF signed /\ s[1] = "-" THEN -val[Len(ds)] ELSE val[Len(ds)]]

\* the server is started on 2024-03-01 at 08:00
Start == [y |-> 2024, m |-> 3, d |-> 1, h |-> 8]

\* time.Now() after k steps of the clock, 12 hours each
Clock(k) ==
    LET hours == Start.h + 12 * k
    IN  [AddDate(Start, hours \div 24) EXCEPT !.h = hours % 24]

----------------------------------------------------------------------------
(* Inputs of the calculator: categories, types and units in several letter
   cases, known and unknown; quantities negative, zero and positive, with
   up to three decimals, some of them on a half cent after multiplication *)

NoCall == [category |-> <<>>, typ |-> <<>>, quantity |-> Zero, unit |-> <<>>]

\* ret is <<>> before the call returns and <<v>> after it returned v
NoRet == <<>>

NoResp == [op |-> "none"]

CalcCategories ==
    { <<"t","r","a","n","s","p","o","r","t">>,
      <<"T","r","a","n","s","p","o","r","t">>,
      <<"E","N","E","R","G","Y">>,
      <<"f","o","o","d">>,
      <<"S","h","o","p","p","i","n","g">>,
      <<"o","t","h","e","r">>,
      <<"O","t","h","e","r">>,
      <<"m","i","s","c">>,
      <<>> }

CalcTypes ==
    { <<"c","a","r">>, <<"C","A","R">>, <<"b","u","s">>,
      <<"t","r","a","i","n">>, <<"b","i","k","e">>, <<"W","a","l","k">>,
      <<"f","l","i","g","h","t">>,
      <<"e","l","e","c","t","r","i","c","i","t","y">>,
      <<"L","p","g">>,
      <<"m","e","a","t","_","h","e","a","v","y","_","d","a","y">>,
      <<"v","e","g","e","t","a","r","i","a","n","_","d","a","y">>,
      <<"V","e","g","a","n","_","D","a","y">>,
      <<"s","h","o","p","p","i","n","g">>,
      <<"c","u","s","t","o","m">>,
      <<"c","a","r"," ">> }

CalcUnits ==
    { <<"k","m">>, <<"k","g">>, <<"K","G">>, <<"k","g","c","o","2","e">>,
      <<"K","g","C","O","2","e">>, <<"u","s","d">>, <<" ","k","g">>, <<>> }

CalcQuantities ==
    { Lit(-20, 1), Lit(-125, 1000), Lit(-50, 1000), Lit(0, 1), Lit(50, 1000),
      Lit(125, 1000), Lit(1234, 1000), Lit(20, 1), Lit(100, 1), Lit(200, 1) }

CalcInit ==
    /\ call \in [category : CalcCategories, typ : CalcTypes,
                 quantity : CalcQuantities, unit : CalcUnits]
    /\ ret = NoRet
    /\ store = {}
    /\ nextID = 1
    /\ now = 0
    /\ resp = NoResp

Compute ==
    /\ ret = NoRet
    /\ \E v \in computeEmission(call.category, call.typ, call.quantity, call.unit) :
          ret' = <<v>>
    /\ UNCHANGED <<store, nextID, now, resp, call>>

CalcNext == Compute

SpecCalc == CalcInit /\ [][CalcNext]_vars

----------------------------------------------------------------------------
(* The HTTP handlers.
   store  : the rows of the activities table, each
            [id, category, typ, quantity, unit, emission_kg, date]
            (the meta and created_at columns are written and never read)
   nextID : the id the table gives to the next row
   now    : the number of clock steps since the server started
   resp   : the request being served with its response, NoResp between two
            requests
   Requests are served one at a time: each handler makes one database
   call.  Failures of the database itself are not modelled. *)

MaxCreates == 2

MaxTicks == 2

Today == <<"2","0","2","4","-","0","3","-","0","1">>

CarTrip ==
    [category |-> <<"T","r","a","n","s","p","o","r","t">>, typ |-> <<"c","a","r">>,
     quantity |-> Lit(10, 1), unit |-> <<"k","m">>]

CarRefund ==
    [category |-> <<"t","r","a","n","s","p","o","r","t">>, typ |-> <<"C","A","R">>,
     quantity |-> Lit(-20, 1), unit |-> <<"k","m">>]

VeganDay ==
    [category |-> <<"f","o","o","d">>, typ |-> <<"v","e","g","a","n","_","d","a","y">>,
     quantity |-> Lit(1, 1), unit |-> <<"d","a","y">>]

NoType ==
    [category |-> <<"f","o","o","d">>, typ |-> <<>>,
     quantity |-> Lit(1, 1), unit |-> <<"d","a","y">>]

WithDate(b, d) ==
    [category |-> b.category, typ |-> b.typ, quantity |-> b.quantity,
     unit |-> b.unit, date |-> d]

\* request bodies: no date, a blank date, today, the first day of the default
\* window, a day that does not exist, and a body without a type
CreateDTOs ==
    { WithDate(CarTrip, <<>>),
      WithDate(CarTrip, <<" ">>),
      WithDate(CarTrip, Today),
      WithDate(CarTrip, <<"2","0","2","4","-","0","2","-","0","1">>),
      WithDate(CarTrip, <<"2","0","2","4","-","0","2","-","3","0">>),
      WithDate(CarRefund, <<>>),
      WithDate(CarRefund, Today),
      WithDate(VeganDay, Today),
      WithDate(NoType, <<>>) }

IdParams == { <<"1">>, <<"0","2">>, <<"-","1">>, <<"1","x">> }

\* query strings: from and to given or left out, from after to, and bounds
\* that do not parse
SummaryParams ==
    { [from |-> <<>>, to |-> <<>>],
      [from |-> <<>>, to |-> Today],
      [from |-> <<"2","0","2","4","-","0","2","-","2","9">>, to |-> <<>>],
      [from |-> <<"2","0","2","4","-","0","2","-","2","9">>, to |-> Today],
      [from |-> <<"2","0","2","4","-","0","3","-","0","2">>, to |-> Today],
      [from |-> <<"2","0","2","4","-","2","-","1">>, to |-> <<>>],
      [from |-> <<" ">>, to |-> <<"2","0","2","4","-","1","3","-","0","1">>] }

Init ==
    /\ store = {}
    /\ nextID = 1
    /\ now = 0
    /\ resp = NoResp
    /\ call = NoCall
    /\ ret = NoRet

Response(op, req, status, body) ==
    [op |-> op, req |-> req, status |-> status, body |-> body]

NewActivityNoEmission(id, dto, d, emission) ==
    [id |-> id, category |-> dto.category, typ |-> dto.typ,
     quantity |-> dto.quantity, unit |-> dto.unit,
     emission_kg |-> Zero, date |-> d]

\* Activity{Category: dto.Category, ..., EmissionKg: emission, Date: d}
NewActivity(id, dto, d, emission) ==
    [id |-> id, category |-> dto.category, typ |-> dto.typ,
     quantity |-> dto.quantity, unit |-> dto.unit,
     emission_kg |-> emission, date |-> d]

\* Order("date asc, id asc")
RECURSIVE OrderByDateId(_)
OrderByDateId(S) ==
    IF S = {} THEN <<>>
    ELSE LET first == CHOOSE r \in S : \A q \in S :
                         \/ q = r
                         \/ Before(r.date, q.date)
                         \/ r.date = q.date /\ r.id < q.id
         IN  <<first>> \o OrderByDateId(S \ {first})

listActivities ==
    /\ resp = NoResp
    /\ resp' = Response("list", <<>>, 200, OrderByDateId(store))
    /\ UNCHANGED <<store, nextID, now, call, ret>>

\* of the failures of ShouldBindJSON, the one of a required field left empty
\* is modelled
createActivity(dto) ==
    /\ resp = NoResp
    /\ nextID <= MaxCreates
    /\ IF dto.category = <<>> \/ dto.typ = <<>>
       THEN /\ resp' = Response("create", dto, 400, [error |-> "binding"])
            /\ UNCHANGED <<store, nextID>>
       ELSE IF ~IsBlank(dto.date) /\ ~ParseDate(dto.date).ok
       THEN /\ resp' = Response("create", dto, 400,
                                [error |-> "invalid date, use YYYY-MM-DD"])
            /\ UNCHANGED <<store, nextID>>
       ELSE LET d == IF IsBlank(dto.date) THEN Clock(now) ELSE ParseDate(dto.date).t
            IN  \E emission \in computeEmission(dto.category, dto.typ,
                                                dto.quantity, dto.unit) :
                    LET item == NewActivity(nextID, dto, d, emission)
                    IN  /\ store' = store \cup {item}
                        /\ nextID' = nextID + 1
                        /\ resp' = Response("create", dto, 200, item)
    /\ UNCHANGED <<now, call, ret>>

DBDeleteUpTo(S, id) == {r \in S : r.id > id}

\* DB.Delete(&Activity{}, id)
DBDelete(S, id) == {r \in S : r.id # id}

deleteActivity(idStr) ==
    /\ resp = NoResp
    /\ IF ~Atoi(idStr).ok
       THEN /\ resp' = Response("delete", idStr, 400, [error |-> "invalid id"])
            /\ UNCHANGED store
       ELSE /\ store' = DBDelete(store, Atoi(idStr).v)
            /\ resp' = Response("delete", idStr, 200, [deleted |-> Atoi(idStr).v])
    /\ UNCHANGED <<nextID, now, call, ret>>

\* the sum of EmissionKg over the rows S, starting from 0.0
RECURSIVE SumKg(_)
SumKg(S) ==
    IF S = {} THEN Zero
    ELSE LET r == CHOOSE r \in S : TRUE
         IN  FAdd(r.emission_kg, SumKg(S \ {r}))

\* Where("date BETWEEN ? AND ?", from, to)
Between(S, from, to) ==
    {r \in S : ~Before(r.date, from) /\ ~After(r.date, to)}

\* byDay[key]: the sum over the rows whose formatted date is key (0.0 for a
\* key that is not in the map)
ByDay(items, key) == SumKg({r \in items : Format(r.date) = key})

\* the loop filling the daily points: d runs from "from" in steps of one
\* day while it is not after "to"
RECURSIVE Points(_, _, _)
Points(d, to, items) ==
    IF After(d, to) THEN <<>>
    ELSE <<[date |-> Format(d), kg |-> ByDay(items, Format(d))]>>
         \o Points(AddDate(d, 1), to, items)

summary(fromStr, toStr) ==
    /\ resp = NoResp
    /\ IF ~IsBlank(fromStr) /\ ~ParseDate(fromStr).ok
       THEN resp' = Response("summary", [from |-> fromStr, to |-> toStr], 400,
                             [error |-> "invalid from"])
       ELSE IF ~IsBlank(toStr) /\ ~ParseDate(toStr).ok
       THEN resp' = Response("summary", [from |-> fromStr, to |-> toStr], 400,
                             [error |-> "invalid to"])
       ELSE LET from == IF IsBlank(fromStr) THEN AddDate(Clock(now), -29)
                        ELSE ParseDate(fromStr).t
                to == IF IsBlank(toStr) THEN Clock(now) ELSE ParseDate(toStr).t
                items == Between(store, from, to)
                cats == {r.category : r \in items}
                catKg(c) == SumKg({r \in items : r.category = c})
            IN  \E total \in round2(SumKg(items)) :
                \E byCat \in [cats -> UNION {round2(catKg(c)) : c \in cats}] :
                    /\ \A c \in cats : byCat[c] \in round2(catKg(c))
                    /\ resp' = Response("summary", [from |-> fromStr, to |-> toStr], 200,
                                        [from |-> Format(from), to |-> Format(to),
                                         total_kg |-> total, by_category |-> byCat,
                                         by_day |-> Points(from, to, items)])
    /\ UNCHANGED <<store, nextID, now, call, ret>>

\* the response has been written; the server waits for the next request
Sent ==
    /\ resp # NoResp
    /\ resp' = NoResp
    /\ UNCHANGED <<store, nextID, now, call, ret>>

\* time passes between two requests
Tick ==
    /\ resp = NoResp
    /\ now < MaxTicks
    /\ now' = now + 1
    /\ UNCHANGED <<store, nextID, resp, call, ret>>

Next ==
    \/ listActivities
    \/ \E dto \in CreateDTOs : createActivity(dto)
    \/ \E idStr \in IdParams : deleteActivity(idStr)
    \/ \E q \in SummaryParams : summary(q.from, q.to)
    \/ Sent
    \/ Tick

Spec == Init /\ [][Next]_vars

----------------------------------------------------------------------------
(* The factor table as the specification states it *)

\* s and t are the same string up to letter case
EqFold(s, t) ==
    /\ Len(s) = Len(t)
    /\ \A i \in 1..Len(s) :
          \/ s[i] = t[i]
          \/ \E k \in 1..26 : {s[i], t[i]} = {UpperChars[k], LowerChars[k]}

\* multiplicative entries: kg per unit of quantity = n / d
RateTable ==
    { [category |-> <<"t","r","a","n","s","p","o","r","t">>, typ |-> <<"c","a","r">>,
       any |-> FALSE, n |-> 24, d |-> 125],
      [category |-> <<"t","r","a","n","s","p","o","r","t">>, typ |-> <<"b","u","s">>,
       any |-> FALSE, n |-> 21, d |-> 200],
      [category |-> <<"t","r","a","n","s","p","o","r","t">>, typ |-> <<"t","r","a","i","n">>,
       any |-> FALSE, n |-> 41, d |-> 1000],
      [category |-> <<"t","r","a","n","s","p","o","r","t">>, typ |-> <<"f","l","i","g","h","t">>,
       any |-> FALSE, n |-> 51, d |-> 200],
      [category |-> <<"t","r","a","n","s","p","o","r","t">>, typ |-> <<"b","i","k","e">>,
       any |-> FALSE, n |-> 0, d |-> 1],
      [category |-> <<"t","r","a","n","s","p","o","r","t">>, typ |-> <<"w","a","l","k">>,
       any |-> FALSE, n |-> 0, d |-> 1],
      [category |-> <<"e","n","e","r","g","y">>,
       typ |-> <<"e","l","e","c","t","r","i","c","i","t","y">>,
       any |-> FALSE, n |-> 7, d |-> 10],
      [category |-> <<"e","n","e","r","g","y">>, typ |-> <<"l","p","g">>,
       any |-> FALSE, n |-> 3, d |-> 1],
      [category |-> <<"s","h","o","p","p","i","n","g">>, typ |-> <<>>,
       any |-> TRUE, n |-> 3, d |-> 2000] }

\* flat-rate entries: kg whatever the quantity
FlatTable ==
    { [category |-> <<"f","o","o","d">>,
       typ |-> <<"m","e","a","t","_","h","e","a","v","y","_","d","a","y">>, kg |-> 7],
      [category |-> <<"f","o","o","d">>,
       typ |-> <<"v","e","g","e","t","a","r","i","a","n","_","d","a","y">>, kg |-> 3],
      [category |-> <<"f","o","o","d">>,
       typ |-> <<"v","e","g","a","n","_","d","a","y">>, kg |-> 2] }

Matches(e, category, typ) ==
    /\ EqFold(category, e.category)
    /\ e.any \/ EqFold(typ, e.typ)

MatchesFlat(e, category, typ) ==
    EqFold(category, e.category) /\ EqFold(typ, e.typ)

\* r is a whole number of cents
IsCents(r) == 100 % r.d = 0

Cents(r) == r.n * (100 \div r.d)

\* r is a whole number of cents nearest to p / q
NearestCent(r, p, q) ==
    IsCents(r) /\ 2 * Abs(100 * p - Cents(r) * q) <= q

\* p / q lies exactly halfway between two cents
OnHalfCent(p, q) == (200 * p) % q = 0 /\ (100 * p) % q # 0

\* r is p / q rounded to 2 decimals, halves away from zero
RoundedHalfAway(r, p, q) ==
    /\ NearestCent(r, p, q)
    /\ OnHalfCent(p, q) => Abs(Cents(r)) * q > Abs(100 * p)

\* C1 as claimed: for every pair of the factor table and every quantity the
\* result is quantity * factor rounded to 2 decimals, halves away from zero;
\* a flat-rate food type returns its constant; letter case is ignored.
C1_RoundHalfAwayAlways ==
    ret # NoRet =>
        /\ \A e \in RateTable :
              Matches(e, call.category, call.typ) =>
                  RoundedHalfAway(ret[1], call.quantity.n * e.n, call.quantity.d * e.d)
        /\ \A e \in FlatTable :
              MatchesFlat(e, call.category, call.typ) => ret[1] = Lit(e.kg, 1)

\* C1 amended: the result is a whole number of cents nearest to
\* quantity * factor; a product exactly on a half cent is rounded away from
\* zero when quantity and factor are binary fractions (the float64 product
\* is exact), and may go to either neighbouring cent otherwise; a flat-rate
\* food type returns its constant; letter case is ignored.
C1_RoundNearestCent ==
    ret # NoRet =>
        /\ \A e \in RateTable :
              Matches(e, call.category, call.typ) =>
                  LET p == call.quantity.n * e.n
                      q == call.quantity.d * e.d
                  IN  /\ NearestCent(ret[1], p, q)
                      /\ IsPow2(call.quantity.d) /\ IsPow2(e.d) =>
                            RoundedHalfAway(ret[1], p, q)
        /\ \A e \in FlatTable :
              MatchesFlat(e, call.category, call.typ) => ret[1] = Lit(e.kg, 1)

\* a negative quantity in another letter case than the table's, rounded on
\* an exact half cent: -0.125 kg of "Lpg" is -0.375, returned as -0.38
C1_Witness ==
    /\ call.category = <<"E","N","E","R","G","Y">>
    /\ call.typ = <<"L","p","g">>
    /\ call.quantity = Lit(-125, 1000)
    /\ ret = <<Lit(-38, 100)>>

InTable(category, typ) ==
    \/ \E e \in RateTable : Matches(e, category, typ)
    \/ \E e \in FlatTable : MatchesFlat(e, category, typ)

IsOther(category) == EqFold(category, <<"o","t","h","e","r">>)

DirectUnit(unit) ==
    EqFold(unit, <<"k","g">>) \/ EqFold(unit, <<"k","g","c","o","2","e">>)

\* the call returns for every input
Total ==
    computeEmission(call.category, call.typ, call.quantity, call.unit) # {}

\* C2 as claimed: the call always returns; it returns 0 for a pair outside
\* the factor table and for category other with a unit that is neither kg
\* nor kgco2e; for other with kg or kgco2e it returns the quantity itself.
C2_OtherReturnsQuantity ==
    /\ Total
    /\ ret # NoRet =>
        /\ ~InTable(call.category, call.typ) /\ ~IsOther(call.category) =>
              ret[1] = Zero
        /\ IsOther(call.category) /\ ~DirectUnit(call.unit) => ret[1] = Zero
        /\ IsOther(call.category) /\ DirectUnit(call.unit) =>
              FEq(ret[1], call.quantity)

\* C2 amended: as claimed, except that for other with kg or kgco2e the
\* result is the quantity rounded to 2 decimals: a nearest whole number of
\* cents, which is the quantity itself when it has at most 2 decimals.
C2_OtherReturnsRounded ==
    /\ Total
    /\ ret # NoRet =>
        /\ ~InTable(call.category, call.typ) /\ ~IsOther(call.category) =>
              ret[1] = Zero
        /\ IsOther(call.category) /\ ~DirectUnit(call.unit) => ret[1] = Zero
        /\ IsOther(call.category) /\ DirectUnit(call.unit) =>
              /\ NearestCent(ret[1], call.quantity.n, call.quantity.d)
              /\ IsCents(call.quantity) => FEq(ret[1], call.quantity)

\* 1.234 kg given as "Other" / "KG" comes back as 1.23
C2_Witness ==
    /\ call.category = <<"O","t","h","e","r">>
    /\ call.unit = <<"K","G">>
    /\ call.quantity = Lit(1234, 1000)
    /\ ret = <<Lit(123, 100)>>

----------------------------------------------------------------------------
(* Calendar days as the specification counts them *)

\* the number of the calendar day of t, counted from 0001-01-01
DayNum(t) ==
    LET py == t.y - 1
        before == <<0, 31, 59, 90, 120, 151, 181, 212, 243, 273, 304, 334>>
        leap == t.y % 4 = 0 /\ (t.y % 100 # 0 \/ t.y % 400 = 0)
    IN  365 * py + (py \div 4) - (py \div 100) + (py \div 400)
        + before[t.m] + (IF leap /\ t.m > 2 THEN 1 ELSE 0) + t.d

\* the days of 2024, the year every date of the model lies in
Calendar ==
    LET len == <<31, 29, 31, 30, 31, 30, 31, 31, 30, 31, 30, 31>>
    IN  {t \in [y : {2024}, m : 1..12, d : 1..31, h : {0}] : t.d <= len[t.m]}

Written == [t \in Calendar |-> Format(t)]

\* s is YYYY-MM-DD for a day of the calendar
ValidDateString(s) == \E t \in Calendar : Written[t] = s

DateOf(s) == CHOOSE t \in Calendar : Written[t] = s

\* s is empty or white space only
Blank(s) == \A i \in 1..Len(s) : s[i] \in {" ", "\t", "\n", "\r"}

CurrentDay == DayNum(Clock(now))

\* the first and last day a summary request asks for
FromDay(q) == IF Blank(q.from) THEN CurrentDay - 29 ELSE DayNum(DateOf(q.from))

ToDay(q) == IF Blank(q.to) THEN CurrentDay ELSE DayNum(DateOf(q.to))

SummaryOK == resp.op = "summary" /\ resp.status = 200

OnDay(S, n) == {r \in S : DayNum(r.date) = n}

InWindow(S, q) == {r \in S : FromDay(q) <= DayNum(r.date) /\ DayNum(r.date) <= ToDay(q)}

RECURSIVE SumPoints(_)
SumPoints(ps) ==
    IF ps = <<>> THEN Zero ELSE FAdd(Head(ps).kg, SumPoints(Tail(ps)))

HasUpper(s) == \E i \in 1..Len(s) : \E k \in 1..26 : s[i] = UpperChars[k]

\* C3 as claimed: every activity in the store has emission_kg >= 0.
C3_EmissionNonNegative == \A r \in store : r.emission_kg.n >= 0

\* C4 as claimed: a stored activity's category is in lower case, and the
\* buckets of by_category do not differ in letter case only.
C4_CategoryLowercase ==
    /\ \A r \in store : ~HasUpper(r.category)
    /\ SummaryOK =>
          \A c1, c2 \in DOMAIN resp.body.by_category : EqFold(c1, c2) => c1 = c2

\* C5 as claimed: by_day holds one point for each calendar day from "from" to
\* "to" inclusive, in ascending order (none when from is after to), and the
\* kg of a point is the sum of emission_kg of the stored activities of that day.
C5_ByDayCoversWindow ==
    SummaryOK =>
        LET F == FromDay(resp.req)
            T == ToDay(resp.req)
            bd == resp.body.by_day
        IN  /\ Len(bd) = IF F > T THEN 0 ELSE T - F + 1
            /\ \A i \in 1..Len(bd) :
                  /\ ValidDateString(bd[i].date)
                  /\ DayNum(DateOf(bd[i].date)) = F + i - 1
                  /\ FEq(bd[i].kg, SumKg(OnDay(store, F + i - 1)))

\* C6 as claimed: every stored activity whose calendar day lies in
\* [from, to] counts in total_kg and in its by_category bucket, whatever the
\* time of day of its date and of the bounds.
C6_DayGranularity ==
    SummaryOK =>
        LET W == InWindow(store, resp.req)
        IN  /\ FEq(resp.body.total_kg, SumKg(W))
            /\ \A r \in W :
                  /\ r.category \in DOMAIN resp.body.by_category
                  /\ FEq(resp.body.by_category[r.category],
                         SumKg({x \in W : x.category = r.category}))

\* C7 as claimed: the kg of the by_day points add up to total_kg, within a
\* cent.
C7_ByDaySumsToTotal ==
    SummaryOK =>
        LET diff == FAdd(SumPoints(resp.body.by_day), FNeg(resp.body.total_kg))
        IN  100 * Abs(diff.n) <= diff.d

\* a handler has just served a request
Served == resp = NoResp /\ resp' # NoResp

\* C8: no step changes a field of a stored activity; a new activity's
\* emission_kg is computeEmission of the category, type, quantity and unit it
\* was created with, and stays so; listActivities and summary leave the
\* store as it is.
C8_WrittenOnce ==
    /\ [](\A r \in store :
             r.emission_kg \in computeEmission(r.category, r.typ, r.quantity, r.unit))
    /\ [][/\ \A r \in store : \A x \in store' : x.id = r.id => x = r
          /\ \A x \in store' \ store :
                /\ resp'.op = "create"
                /\ x.category = resp'.req.category /\ x.typ = resp'.req.typ
                /\ x.quantity = resp'.req.quantity /\ x.unit = resp'.req.unit
                /\ x.emission_kg \in computeEmission(resp'.req.category, resp'.req.typ,
                                                    resp'.req.quantity, resp'.req.unit)
          /\ Served /\ resp'.op \in {"list", "summary"} => store' = store]_vars

\* a summary is served from a store that holds an activity with a nonzero
\* emission, after another activity was created and deleted
C8_Witness ==
    /\ SummaryOK
    /\ nextID = 3
    /\ \E r \in store : r.id = 1 /\ r.emission_kg = Lit(192, 100)
    /\ Cardinality(store) = 1
    /\ resp.body.total_kg = Lit(192, 100)

RequiredGiven(dto) == dto.category # <<>> /\ dto.typ # <<>>

BadDate(s) == ~Blank(s) /\ ~ValidDateString(s)

\* C9: a create request whose date is not blank and is no YYYY-MM-DD day gets
\* 400 and leaves the store as it is; a summary request with such a from or
\* to gets 400 with an error and no summary; a blank date is no error: the
\* activity is stored with the current day, and a blank from or to stands for
\* the current day minus 29 or the current day.
C9_BadDateRejected ==
    [][Served =>
        /\ resp'.op = "create" /\ BadDate(resp'.req.date) =>
              /\ resp'.status = 400
              /\ store' = store /\ nextID' = nextID
        /\ resp'.op = "create" /\ Blank(resp'.req.date) /\ RequiredGiven(resp'.req) =>
              /\ resp'.status = 200
              /\ store' = store \cup {resp'.body}
              /\ resp'.body \notin store
              /\ DayNum(resp'.body.date) = CurrentDay
        /\ resp'.op = "summary" /\ (BadDate(resp'.req.from) \/ BadDate(resp'.req.to)) =>
              /\ resp'.status = 400
              /\ DOMAIN resp'.body = {"error"}
              /\ store' = store
        /\ resp'.op = "summary" /\ ~BadDate(resp'.req.from) /\ ~BadDate(resp'.req.to) =>
              /\ resp'.status = 200
              /\ Blank(resp'.req.from) =>
                    /\ ValidDateString(resp'.body.from)
                    /\ DayNum(DateOf(resp'.body.from)) = CurrentDay - 29
              /\ Blank(resp'.req.to) =>
                    /\ ValidDateString(resp'.body.to)
                    /\ DayNum(DateOf(resp'.body.to)) = CurrentDay]_vars

\* a create request for 2024-02-30 was refused while the store held an activity
C9_Witness ==
    /\ resp.op = "create"
    /\ resp.status = 400
    /\ resp.req.date = <<"2","0","2","4","-","0","2","-","3","0">>
    /\ store # {}

\* s is an optional sign and one or more digits
Numeric(s) ==
    LET ds == IF s # <<>> /\ s[1] \in {"+", "-"} THEN Tail(s) ELSE s
    IN  ds # <<>> /\ \A i \in 1..Len(ds) : IsDigit(ds[i])

\* s is a way to write the number n, -99 <= n <= 99
Writes(s, n) ==
    LET ds == IF s # <<>> /\ s[1] \in {"+", "-"} THEN Tail(s) ELSE s
        neg == s # <<>> /\ s[1] = "-"
    IN  /\ Len(ds) \in {1, 2}
        /\ (IF Len(ds) = 1 THEN <<"0">> \o ds ELSE ds) = TwoDigits(Abs(n))
        /\ (n < 0 => neg) /\ (n > 0 => ~neg)

\* C10: deleteActivity with a numeric id answers 200 {"deleted": id} and
\* removes the activity with that id and no other (none when there is none);
\* with an id that is not numeric it answers 400 and leaves the store as it
\* is; what listActivities returns is the store, and total_kg of a summary
\* is the sum over some of the stored activities, so a deleted one is in
\* neither.
C10_DeleteExactlyOne ==
    /\ [](resp.op = "list" =>
             /\ {resp.body[i] : i \in 1..Len(resp.body)} = store
             /\ Len(resp.body) = Cardinality(store))
    /\ [](SummaryOK => \E S \in SUBSET store : FEq(resp.body.total_kg, SumKg(S)))
    /\ [][Served /\ resp'.op = "delete" =>
            IF Numeric(resp'.req)
            THEN /\ resp'.status = 200
                 /\ Writes(resp'.req, resp'.body.deleted)
                 /\ store' \subseteq store
                 /\ \A r \in store : r \in store' <=> r.id # resp'.body.deleted
                 /\ nextID' = nextID
            ELSE /\ resp'.status = 400
                 /\ store' = store]_vars

\* the second of two activities was deleted by the id "02"; the first stays
C10_Witness ==
    /\ resp.op = "delete"
    /\ resp.req = <<"0","2">>
    /\ resp.status = 200
    /\ nextID = 3
    /\ \E r \in store : r.id = 1
    /\ Cardinality(store) = 1

====
